---- MODULE Spec2Model ----
(***************************************************************************)
(* A model of src/lib.rs of the x86_64 crate: PrivilegeLevel::from_u16 and *)
(* Singleton<T> (new / try_get_mut), the latter called from several        *)
(* execution contexts (threads, or interrupt contexts that preempt a call  *)
(* and run their own call to completion) that interleave step by step.     *)
(***************************************************************************)
EXTENDS Naturals, FiniteSets, Sequences

\* ------------------------------------------------------------------ bounds

\* Number of execution contexts that may each issue one try_get_mut call.
MaxCalls == 3

\* The wrapped values are 0..MaxVal.
MaxVal == 1

\* ------------------------------------------------------- program constants

\* from_u16 takes a u16: its argument ranges over 0..U16Max.
U16Max == 65535

Calls == 1..MaxCalls

Values == 0..MaxVal

U16 == 0..U16Max

\* The event "Singleton::new ran"; the swap of call p is event p.
NewEvent == MaxCalls + 1

NoCall == MaxCalls + 2

VARIABLES
    used,          \* Singleton.used : AtomicBool
    value,         \* Singleton.value : UnsafeCell<T>, the wrapped value
    pc,            \* position of each call in try_get_mut
    already_used,  \* each call's local `already_used`
    result,        \* what each call returned: "pending", "Some", "None"
    hb,            \* events that happen-before each context's current point
    flag_rel,      \* events released into `used` by the head of its release sequence
    init_value,    \* history: the value that was passed to new
    first_call,    \* history: the call that started first (NoCall if none)
    overlapped,    \* history: a call started while another was in progress
    first_swap,    \* history: the call whose swap was performed first
    steps,         \* history: number of steps each call has taken
    observed,      \* history: what the winner read through its reference on return
    wrote,         \* history: the holder has written through the reference
    write_hb,      \* history: events that happen-before the holder's last write
    pl_pc,         \* position of the from_u16 call
    pl_value,      \* argument of the from_u16 call
    pl_result      \* outcome of the from_u16 call

svars == <<used, value, pc, already_used, result, hb, flag_rel, init_value,
           first_call, overlapped, first_swap, steps, observed, wrote, write_hb>>

plvars == <<pl_pc, pl_value, pl_result>>

vars == <<svars, plvars>>

NoValue == MaxVal + 1

\* ---------------------------------------------------------- PrivilegeLevel

\* #[repr(u8)] enum PrivilegeLevel: the discriminant of each variant.
as_u8(level) ==
    CASE level = "Ring0" -> 0
      [] level = "Ring1" -> 1
      [] level = "Ring2" -> 2
      [] level = "Ring3" -> 3

\* from_u16 with the value masked to two bits instead of matched.
from_u16_masked(v) ==
    [panicked |-> FALSE,
     level |-> CASE v % 4 = 0 -> "Ring0"
                 [] v % 4 = 1 -> "Ring1"
                 [] v % 4 = 2 -> "Ring3"
                 [] v % 4 = 3 -> "Ring2"]

\* from_u16 saturating at Ring3 instead of panicking.
from_u16_clamped(v) ==
    CASE v = 0 -> [panicked |-> FALSE, level |-> "Ring0"]
      [] v = 1 -> [panicked |-> FALSE, level |-> "Ring1"]
      [] v = 2 -> [panicked |-> FALSE, level |-> "Ring2"]
      [] OTHER -> [panicked |-> FALSE, level |-> "Ring3"]

\* PrivilegeLevel::from_u16: the match on the value, panicking on the last arm.
from_u16(v) ==
    CASE v = 0 -> [panicked |-> FALSE, level |-> "Ring0"]
      [] v = 1 -> [panicked |-> FALSE, level |-> "Ring1"]
      [] v = 2 -> [panicked |-> FALSE, level |-> "Ring2"]
      [] v = 3 -> [panicked |-> FALSE, level |-> "Ring3"]
      [] OTHER -> [panicked |-> TRUE, level |-> "NoLevel"]

\* ---------------------------------------------------------------- Singleton

\* core::sync::atomic::Ordering: which orderings acquire, which release.
Acquires(ord) == ord \in {"Acquire", "AcqRel", "SeqCst"}

Releases(ord) == ord \in {"Release", "AcqRel", "SeqCst"}

RelaxedOrdering == "Relaxed"

\* The ordering try_get_mut passes to swap.
SwapOrdering == "AcqRel"

\* Singleton::new(v): used = false, value = v.  No call has started.
new(v) ==
    /\ used = FALSE
    /\ value = v
    /\ init_value = v
    /\ pc = [p \in Calls |-> "idle"]
    /\ already_used = [p \in Calls |-> FALSE]
    /\ result = [p \in Calls |-> "pending"]
    /\ hb = [p \in Calls |-> {NewEvent}]
    /\ flag_rel = {}
    /\ first_call = NoCall
    /\ overlapped = FALSE
    /\ first_swap = NoCall
    /\ steps = [p \in Calls |-> 0]
    /\ observed = NoValue
    /\ wrote = FALSE
    /\ write_hb = {}

InProgress(p) == pc[p] \in {"swap", "ret"}

\* Context p enters try_get_mut.
Call(p) ==
    /\ pc[p] = "idle"
    /\ pc' = [pc EXCEPT ![p] = "swap"]
    /\ first_call' = IF first_call = NoCall THEN p ELSE first_call
    /\ overlapped' = (overlapped \/ \E q \in Calls : InProgress(q))
    /\ UNCHANGED <<used, value, already_used, result, hb, flag_rel, init_value,
                   first_swap, steps, observed, wrote, write_hb>>
    /\ UNCHANGED plvars

\* The effect of swap(new_flag, SwapOrdering) by call p, leaving new_value in
\* the cell: one atomic read-modify-write of `used`.
SwapEffect(p, new_flag, new_value) ==
    /\ already_used' = [already_used EXCEPT ![p] = used]
    /\ used' = new_flag
    /\ value' = new_value
    /\ LET acquired == IF Acquires(SwapOrdering) THEN flag_rel ELSE {}
           mine == hb[p] \cup acquired \cup {p}
       IN /\ hb' = [hb EXCEPT ![p] = mine]
          /\ flag_rel' = IF Releases(SwapOrdering) THEN mine ELSE flag_rel
    /\ first_swap' = IF first_swap = NoCall THEN p ELSE first_swap
    /\ steps' = [steps EXCEPT ![p] = @ + 1]
    /\ pc' = [pc EXCEPT ![p] = "ret"]
    /\ UNCHANGED <<result, init_value, first_call, overlapped, observed, wrote,
                   write_hb>>
    /\ UNCHANGED plvars

\* swap(false, ..) instead of swap(true, ..).
SwapFalse(p) ==
    /\ pc[p] = "swap"
    /\ SwapEffect(p, FALSE, value)

\* A swap that also takes the wrapped value out of the cell, leaving 0.
SwapClobber(p) ==
    /\ pc[p] = "swap"
    /\ SwapEffect(p, TRUE, 0)

\* A lock-like acquire: the call waits until the flag is clear.
SwapSpin(p) ==
    /\ pc[p] = "swap"
    /\ ~used
    /\ SwapEffect(p, TRUE, value)

\* `let a = used.load(); used.store(true);`: a load step, then a store step.
SwapLoadStore(p) ==
    /\ pc[p] = "swap"
    /\ \/ /\ steps[p] = 0
          /\ already_used' = [already_used EXCEPT ![p] = used]
          /\ steps' = [steps EXCEPT ![p] = 1]
          /\ UNCHANGED <<used, pc, hb, flag_rel, first_swap>>
       \/ /\ steps[p] = 1
          /\ used' = TRUE
          /\ steps' = [steps EXCEPT ![p] = 2]
          /\ pc' = [pc EXCEPT ![p] = "ret"]
          /\ hb' = [hb EXCEPT ![p] = hb[p] \cup flag_rel \cup {p}]
          /\ flag_rel' = hb[p] \cup flag_rel \cup {p}
          /\ first_swap' = IF first_swap = NoCall THEN p ELSE first_swap
          /\ UNCHANGED already_used
    /\ UNCHANGED <<value, result, init_value, first_call, overlapped, observed,
                   wrote, write_hb>>
    /\ UNCHANGED plvars

\* let already_used = self.used.swap(true, Ordering::AcqRel);
Swap(p) ==
    /\ pc[p] = "swap"
    /\ SwapEffect(p, TRUE, value)

\* The effect of the if/else on the caller and the flag.
ReturnEffect(p, some, flag) ==
    /\ result' = [result EXCEPT ![p] = IF some THEN "Some" ELSE "None"]
    /\ observed' = IF some THEN value ELSE observed
    /\ used' = flag
    /\ steps' = [steps EXCEPT ![p] = @ + 1]
    /\ pc' = [pc EXCEPT ![p] = "done"]
    /\ UNCHANGED <<value, already_used, hb, flag_rel, init_value, first_call,
                   overlapped, first_swap, wrote, write_hb>>
    /\ UNCHANGED plvars

\* A failing call that puts the flag back.
ReturnReset(p) ==
    /\ pc[p] = "ret"
    /\ ReturnEffect(p, ~already_used[p], IF already_used[p] THEN FALSE ELSE used)

\* The branches taken the wrong way round.
ReturnInverted(p) ==
    /\ pc[p] = "ret"
    /\ ReturnEffect(p, already_used[p], used)

\* if already_used { None } else { Some(unsafe { &mut *self.value.get() }) }
Return(p) ==
    /\ pc[p] = "ret"
    /\ ReturnEffect(p, ~already_used[p], used)

\* The holder of the reference writes v through it.
Write(p, v) ==
    /\ result[p] = "Some"
    /\ value' = v
    /\ wrote' = TRUE
    /\ write_hb' = hb[p]
    /\ UNCHANGED <<used, pc, already_used, result, hb, flag_rel, init_value,
                   first_call, overlapped, first_swap, steps, observed>>
    /\ UNCHANGED plvars

PLIdle ==
    /\ pl_pc = "idle"
    /\ pl_value = 0
    /\ pl_result = [panicked |-> FALSE, level |-> "NoLevel"]

Init ==
    /\ \E v \in Values : new(v)
    /\ PLIdle

Next ==
    \/ \E p \in Calls : Call(p)
    \/ \E p \in Calls : Swap(p)
    \/ \E p \in Calls : Return(p)
    \/ \E p \in Calls, v \in Values : Write(p, v)

Spec == Init /\ [][Next]_vars

\* Every context that is inside try_get_mut keeps being scheduled.
FairSpec ==
    /\ Spec
    /\ \A p \in Calls : WF_vars(Swap(p)) /\ WF_vars(Return(p))

\* ------------------------------------------------- from_u16 specification

\* A caller evaluates from_u16(pl_value); a panic ends the caller.
FromU16 ==
    /\ pl_pc = "call"
    /\ pl_result' = from_u16(pl_value)
    /\ pl_pc' = IF from_u16(pl_value).panicked THEN "panicked" ELSE "returned"
    /\ UNCHANGED pl_value
    /\ UNCHANGED svars

InitPL ==
    /\ new(0)
    /\ pl_pc = "call"
    /\ pl_value \in U16
    /\ pl_result = [panicked |-> FALSE, level |-> "NoLevel"]

NextPL == FromU16

SpecPL == InitPL /\ [][NextPL]_vars

\* ================================================================= claims

Started == {p \in Calls : pc[p] # "idle"}

Returned == {p \in Calls : pc[p] = "done"}

Holders == {p \in Calls : result[p] = "Some"}

Losers == {p \in Calls : result[p] = "None"}

AllReturned == Started # {} /\ Started = Returned

\* C1: once all N >= 1 started calls have returned, under every interleaving,
\* exactly one has returned Some and the other N-1 have returned None.
C1_ExactlyOneSome ==
    AllReturned =>
        /\ Cardinality(Holders) = 1
        /\ Cardinality(Losers) = Cardinality(Started) - 1

\* All MaxCalls calls ran concurrently and have returned.
C1_Witness ==
    /\ Returned = Calls
    /\ overlapped
    /\ Cardinality(Holders) = 1

\* C2: in a sequence of non-overlapping calls on a fresh Singleton, the first
\* call returns Some and every following call returns None.
C2_SequentialFirstWins ==
    ~overlapped =>
        \A p \in Returned :
            result[p] = IF p = first_call THEN "Some" ELSE "None"

\* MaxCalls calls ran one after the other; the first got Some, the rest None.
C2_Witness ==
    /\ ~overlapped
    /\ Returned = Calls
    /\ Holders = {first_call}
    /\ Losers = Calls \ {first_call}

\* C3: the flag is unused until a swap has been performed, used from then on,
\* and no step ever takes it from used back to unused.
C3_FlagMonotone ==
    /\ [](used <=> first_swap # NoCall)
    /\ [][used => used']_vars

\* The flag is still used after every call, losers included, has returned.
C3_Witness ==
    /\ used
    /\ Returned = Calls
    /\ Losers # {}

\* C4: while the flag is unused no reference has been handed out; at most one
\* call ever holds the reference, and once a call holds it, that same call is
\* the only holder in every later state.
C4_ExclusiveHolder ==
    /\ [](~used => Holders = {})
    /\ [](Cardinality(Holders) <= 1)
    /\ [][Holders # {} => Holders' = Holders]_vars

\* One call holds the reference, has written through it, and every other call
\* has returned without one.
C4_Witness ==
    /\ Cardinality(Holders) = 1
    /\ Losers = Calls \ Holders
    /\ wrote

\* C5: no step of try_get_mut changes the wrapped value: until the holder
\* writes through its reference the cell holds the value passed to new, and
\* that is the value the winner finds behind its reference when it returns.
C5_ValueUntouched ==
    /\ [][(\E p \in Calls : Call(p) \/ Swap(p) \/ Return(p)) => value' = value]_vars
    /\ [](~wrote => value = init_value)
    /\ [](observed # NoValue => observed = init_value)

\* The winner returned after a loser had already returned None, and found the
\* (non-zero) value passed to new.
C5_Witness ==
    /\ Holders # {}
    /\ Losers # {}
    /\ ~wrote
    /\ init_value = MaxVal
    /\ observed = MaxVal
    /\ value = MaxVal

RingOf(n) == <<"Ring0", "Ring1", "Ring2", "Ring3">>[n + 1]

\* C6: for n in 0..=3, from_u16(n) returns the ring whose discriminant is n.
C6_FromU16InRange ==
    (pl_pc # "call" /\ pl_value \in 0..3) =>
        /\ pl_pc = "returned"
        /\ ~pl_result.panicked
        /\ pl_result.level = RingOf(pl_value)
        /\ as_u8(pl_result.level) = pl_value

\* from_u16(3) returned Ring3.
C6_Witness ==
    /\ pl_pc = "returned"
    /\ pl_value = 3
    /\ pl_result.level = "Ring3"

\* C7: for every u16 n > 3, from_u16(n) panics and returns no PrivilegeLevel.
C7_FromU16OutOfRange ==
    (pl_pc # "call" /\ pl_value \in 4..U16Max) =>
        /\ pl_pc = "panicked"
        /\ pl_result.panicked
        /\ pl_result.level = "NoLevel"

\* from_u16(65535) panicked.
C7_Witness ==
    /\ pl_pc = "panicked"
    /\ pl_value = U16Max
    /\ pl_result.panicked

\* The steps try_get_mut takes: the swap and the return.
StepsPerCall == Cardinality({"swap", "ret"})

\* C8: a call inside try_get_mut can always take its next step whatever the
\* other contexts are doing, takes at most StepsPerCall steps, and, being
\* scheduled, returns.
C8_NonBlocking ==
    /\ [](\A p \in Calls :
            /\ pc[p] = "swap" => ENABLED Swap(p)
            /\ pc[p] = "ret" => ENABLED Return(p)
            /\ steps[p] <= StepsPerCall
            /\ steps[p] = StepsPerCall => pc[p] = "done")
    /\ \A p \in Calls : InProgress(p) ~> (pc[p] = "done")

\* A call that swapped first is preempted before it returns by a call that
\* started later and has run to completion; the preempted call can go on.
C8_Witness ==
    \E p, q \in Calls :
        /\ first_call = p
        /\ first_swap = p
        /\ pc[p] = "ret"
        /\ pc[q] = "done"
        /\ result[q] = "None"
        /\ ENABLED Return(p)

\* C9: the swap is one atomic read-modify-write (at most one call reads
\* "unused"), and with its acquire-release ordering the flag becoming used
\* happens-before everything a loser does after its swap and before every
\* write of the winner through the reference, while Singleton::new
\* happens-before the winner's use of the value.
C9_AcqRelOrdering ==
    /\ Cardinality({p \in Calls : pc[p] \in {"ret", "done"} /\ ~already_used[p]}) <= 1
    /\ \A p \in Calls :
          (pc[p] \in {"ret", "done"} /\ already_used[p]) => first_swap \in hb[p]
    /\ wrote => (first_swap \in write_hb /\ NewEvent \in write_hb)
    /\ \A p \in Holders : NewEvent \in hb[p] /\ first_swap = p

\* A loser has seen the flag used while the winner has already written
\* through its reference.
C9_Witness ==
    \E l \in Calls :
        /\ pc[l] = "ret"
        /\ already_used[l]
        /\ wrote
        /\ first_swap \in hb[l]

\* C10: a call returns Some iff its swap was the first swap on the Singleton;
\* a call returns None only after another call's swap.
C10_FirstSwapWins ==
    \A p \in Calls :
        /\ result[p] = "Some" => first_swap = p
        /\ (pc[p] = "done" /\ first_swap = p) => result[p] = "Some"
        /\ result[p] = "None" => first_swap \notin {NoCall, p}

\* The loser started first and has returned None, while the winner, which
\* started later but swapped first, has not yet returned.
C10_Witness ==
    \E w, l \in Calls :
        /\ first_call = l
        /\ first_swap = w
        /\ result[l] = "None"
        /\ pc[w] = "ret"

====
